---- MODULE Spec2Model ----
(***************************************************************************)
(* Reconciliation of MEF aggregates against VIAF linkage records           *)
(* (rero_mef/agents/viaf/api.py).                                          *)
(*                                                                         *)
(* The record store and the search index are modelled as one consistent    *)
(* store: every write is visible to the next read.                         *)
(***************************************************************************)
EXTENDS Integers, Sequences, FiniteSets, TLC

\* ---------------------------------------------------------------- bounds
MaxPid == 2      \* pids of the first source (idref): 1..MaxPid
MaxPidOther == 1 \* pids of every other source: 1..MaxPidOther
MaxViaf == 2     \* VIAF cluster pids: 1..MaxViaf
MaxMef == 3      \* MEF aggregates that can be allocated
MaxSrcLen == 2   \* source entries of one upstream VIAF response
MaxCalls == 1    \* calls per behaviour of the online fetch specification
MaxFlagOps == 3  \* operations per behaviour with the flags of the caller
MaxConcept == 3    \* pids of one pid_type in the concept MEF index
MaxRecursion == 5  \* nested get_latest calls the interpreter allows
MaxOps == 4      \* operations per behaviour

\* ------------------------------------------------------------- constants
\* sources_used: the VIAF sources that carry a record_class, in dict order
Sources == <<"idref", "gnd", "rero">>
SourceNames == {Sources[i] : i \in 1..Len(Sources)}
Pids == 1..MaxPid
PidsOf(s) == IF s = Sources[1] THEN 1..MaxPid ELSE 1..MaxPidOther
ViafPids == 1..MaxViaf
NoPid == 0
NoViaf == [s \in SourceNames |-> NoPid]
EmptySlots == [s \in SourceNames |-> NoPid]
EmptyActions == [p \in {} |-> 0]
EmptyOld == [m \in {} |-> {}]

Min(S) == CHOOSE x \in S : \A y \in S : x <= y

\* --------------------------------------------------------------- state
VARIABLES
    src,     \* source record store: src[s][p] = 0 absent, 1 stale, 2 current
    viaf,    \* VIAF store: viaf[v] = mapping source -> pid (0 = not listed)
    vex,     \* set of VIAF pids whose record exists
    stale,   \* VIAF pids deleted from the store but still in the search index
    md5,     \* md5[v]: the md5 field of the stored VIAF record v (0 = none)
    upd,     \* VIAF pids by _updated, most recent first
    mef,     \* MEF aggregates, mef[m] = [slots, viaf_pid, deleted]; m = pid
    last,    \* the last call: operation, arguments, result
    pre,     \* MEF aggregates and source records before the last call
    nops,    \* number of operations so far
    run,     \* run[v]: position and locals of a create_mef_and_agents(v)
             \* call that runs concurrently with another one
    cm       \* the concept MEF index and a ConceptMefRecord.get_latest call

vars == <<src, viaf, vex, stale, md5, upd, mef, last, pre, nops, run,
          cm>>

\* the VIAF pids the search index (AgentViafSearch) lists
vix == vex \cup stale

\* ------------------------------------------------------- store primitives
\* AgentMefRecord.get_mef: MEF pids whose field agent_name matches agent_pid
get_mef(M, agent_pid, agent_name) ==
    IF agent_name = "viaf"
    THEN {m \in 1..Len(M) : M[m].viaf_pid = agent_pid}
    ELSE {m \in 1..Len(M) : M[m].slots[agent_name] = agent_pid}

\* EntityMefRecord.get_agents_pids: source -> pid of the slots of a MEF
mef_get_agents_pids(M, m) == M[m].slots

\* ordered position of a VIAF pid in the _updated order
RECURSIVE FirstIn(_, _)
FirstIn(seq, S) ==
    IF seq = <<>> THEN 0
    ELSE IF Head(seq) \in S THEN Head(seq) ELSE FirstIn(Tail(seq), S)

\* AgentViafRecord.get_viaf(agent): VIAF records listing the source pid,
\* sorted by _updated descending; 0 when there is none
get_viaf_first(V, X, U, s, p) ==
    FirstIn(U, {v \in X : V[v][s] = p})

Touch(U, v) == <<v>> \o SelectSeq(U, LAMBDA x : x # v)


\* ------------------------------------------------------- online fetch
\* VIAF source codes of `sources` with a record class, in the order of Sources
Codes == <<"SUDOC", "DNB", "RERO">>
\* source codes an upstream cluster can carry: the above and an unknown one
UpstreamCodes == {Codes[i] : i \in 1..Len(Codes)} \cup {"XX"}
\* cls.sources.get(code, {}).get('name'); "" stands for None
NameOf(code) ==
    IF \E i \in 1..Len(Codes) : Codes[i] = code
    THEN Sources[CHOOSE i \in 1..Len(Codes) : Codes[i] = code]
    ELSE ""
\* source.get('#text', '|').split('|'): the fields of one source entry
Texts ==
    {<<c>> : c \in UpstreamCodes}
    \cup {<<c, p>> : c \in {"XX"}, p \in {1}}
    \cup UNION {{<<Codes[i], p>> : p \in PidsOf(Sources[i])} :
                i \in 1..Len(Codes)}
SeqsUpTo(S, n) == UNION {[1..k -> S] : k \in 0..n}
\* upstream responses: HTTP status ok or not, viafID (0 = none), sources
Responses ==
    [ok : BOOLEAN, viafID : 0..MaxViaf, source : SeqsUpTo(Texts, MaxSrcLen)]
\* result = {} and the empty dict returned with NO RECORD
EmptyData == [present |-> FALSE, pid |-> 0, pids |-> NoViaf]

\* the loop "for source in sources" of get_online_record: text[1] of an
\* entry of a known source code without '|' raises IndexError
RECURSIVE Normalize(_, _, _)
Normalize(texts, i, res) ==
    IF i > Len(texts) THEN [raised |-> FALSE, data |-> res]
    ELSE LET text == texts[i]
             bib_source == NameOf(text[1])
         IN  IF bib_source = "" THEN Normalize(texts, i + 1, res)
             ELSE IF Len(text) < 2 THEN [raised |-> TRUE, data |-> res]
             ELSE Normalize(texts, i + 1,
                            [res EXCEPT !.pids[bib_source] = text[2]])

\* AgentViafRecord.get_online_record(viaf_source_code, pid), normalized
\* format, for the upstream response resp.  Returns [raised, data, msg].
get_online_record(viaf_source_code, pid, resp) ==
    LET n == IF resp.ok
             THEN Normalize(resp.source, 1,
                            [present |-> TRUE, pid |-> resp.viafID,
                             pids |-> NoViaf])
             ELSE [raised |-> FALSE, data |-> EmptyData]
        result == n.data
        same == IF viaf_source_code = "VIAF" THEN result.pid = pid
                ELSE /\ NameOf(viaf_source_code) # ""
                     /\ result.pids[NameOf(viaf_source_code)] = pid
    IN  IF n.raised
        THEN [raised |-> TRUE, data |-> EmptyData, msg |-> ""]
        ELSE IF same
        THEN [raised |-> FALSE, data |-> result, msg |-> "OK"]
        ELSE [raised |-> FALSE, data |-> EmptyData, msg |-> "NO RECORD"]

\* add_md5: the checksum of a normalized cluster (never 0)
NoMd5 == 0
Md5(pids) ==
    1 + pids[Sources[1]] + (MaxPid + 1) * pids[Sources[2]]
      + (MaxPid + 1) * (MaxPid + 1) * pids[Sources[3]]

\* update_online that replaces the stored record without comparing the md5
viaf_update_online_NoGate(V, Md, v, resp) ==
    LET r == get_online_record("VIAF", v, resp)
    IN  IF r.raised
        THEN [raised |-> TRUE, action |-> "", data |-> r.data,
              viaf |-> V, md5 |-> Md]
        ELSE IF r.data.present
        THEN [raised |-> FALSE, action |-> "UPDATE", data |-> r.data,
              viaf |-> [V EXCEPT ![v] = r.data.pids],
              md5 |-> [Md EXCEPT ![v] = Md5(r.data.pids)]]
        ELSE [raised |-> FALSE, action |-> "DISCARD", data |-> r.data,
              viaf |-> V, md5 |-> Md]

\* AgentViafRecord.update_online of the stored VIAF record v.
\* Returns [raised, action, data, viaf, md5]; data is the fetched cluster.
viaf_update_online(V, Md, v, resp) ==
    LET r == get_online_record("VIAF", v, resp)
        online_md5 == Md5(r.data.pids)
    IN  IF r.raised
        THEN [raised |-> TRUE, action |-> "", data |-> r.data,
              viaf |-> V, md5 |-> Md]
        ELSE IF r.data.present
        THEN IF online_md5 = Md[v]
             THEN [raised |-> FALSE, action |-> "UPTODATE", data |-> r.data,
                   viaf |-> V, md5 |-> Md]
             ELSE [raised |-> FALSE, action |-> "UPDATE", data |-> r.data,
                   viaf |-> [V EXCEPT ![v] = r.data.pids],
                   md5 |-> [Md EXCEPT ![v] = online_md5]]
        ELSE [raised |-> FALSE, action |-> "DISCARD", data |-> r.data,
              viaf |-> V, md5 |-> Md]

\* ------------------------------------------------- create-or-attach (4.3)
\* create_or_update_mef that never looks for an aggregate of the record
create_or_update_mef_AlwaysCreate(W, s, p) ==
    [mef |-> Append(W.mef, [slots |-> [EmptySlots EXCEPT ![s] = p],
                            viaf_pid |-> get_viaf_first(W.viaf, W.vex,
                                                        W.upd, s, p),
                            deleted |-> FALSE]),
     pid |-> Len(W.mef) + 1, action |-> "CREATE"]

\* AgentRecord.create_or_update_mef for source record (s, p) in world W
\* (W has fields mef, viaf, vex, upd).  Returns [mef, pid, action].
create_or_update_mef(W, s, p) ==
    LET own == get_mef(W.mef, p, s)
        v == get_viaf_first(W.viaf, W.vex, W.upd, s, p)
        byViaf == IF v = 0 THEN {} ELSE get_mef(W.mef, v, "viaf")
    IN  IF own # {}
        THEN \* reuse the aggregate that references the record; the slot
             \* is overwritten with the same reference: content unchanged
             [mef |-> W.mef, pid |-> Min(own), action |-> "UPTODATE"]
        ELSE IF byViaf # {}
        THEN LET m == Min(byViaf)
             IN  [mef |-> [W.mef EXCEPT ![m].slots[s] = p],
                  pid |-> m, action |-> "UPDATE"]
        ELSE [mef |-> Append(W.mef,
                        [slots |-> [EmptySlots EXCEPT ![s] = p],
                         viaf_pid |-> v, deleted |-> FALSE]),
              pid |-> Len(W.mef) + 1, action |-> "CREATE"]

\* ------------------------------------------------ create_mef_and_agents
\* update_online that does not read the store when the type is not online
update_online_NoStoreRead(S, s, pid, fetch) ==
    IF fetch[s] = "ok"
    THEN [rec |-> TRUE,
          action |-> IF S[s][pid] = 0 THEN "CREATE"
                     ELSE IF S[s][pid] = 2 THEN "UPTODATE" ELSE "UPDATE",
          src |-> [S EXCEPT ![s][pid] = 2]]
    ELSE [rec |-> FALSE, action |-> "NOTONLINE", src |-> S]

\* update_online (closure): fetch[s] is "off" when the source type is not
\* in the online set, "ok" when the online fetch returns data, "fail" when
\* it returns nothing.  Returns [rec, action, src].
update_online(S, s, pid, fetch) ==
    IF fetch[s] # "off"
    THEN IF fetch[s] = "ok"
         THEN [rec |-> TRUE,
               action |-> IF S[s][pid] = 0 THEN "CREATE"
                          ELSE IF S[s][pid] = 2 THEN "UPTODATE"
                          ELSE "UPDATE",
               src |-> [S EXCEPT ![s][pid] = 2]]
         ELSE [rec |-> FALSE, action |-> "NOTONLINE", src |-> S]
    ELSE [rec |-> S[s][pid] # 0, action |-> "NOTONLINE", src |-> S]

\* set_actions (closure): the log is a dict keyed by the pid alone
set_actions(actions, pid, source_name, action, mef_pid, mef_action) ==
    LET a1 == IF pid \in DOMAIN actions THEN actions
              ELSE [k \in (DOMAIN actions) \cup {pid} |->
                      IF k = pid
                      THEN [source |-> source_name, action |-> action,
                            MEF |-> EmptyActions]
                      ELSE actions[k]]
    IN  IF mef_pid # 0
        THEN LET old == a1[pid].MEF
                 new == [k \in (DOMAIN old) \cup {mef_pid} |->
                           IF k = mef_pid THEN mef_action ELSE old[k]]
             IN  [a1 EXCEPT ![pid].MEF = new]
        ELSE a1

\* AgentViafRecord.get_agents_pids: the listed pids of the sources used
get_agents_pids(vrec) == [s \in SourceNames |-> vrec[s]]

\* "clean VIAF MEF pids not changed": sources that the VIAF record and its
\* MEF aggregate list with the same pid, from Sources[i] on
RECURSIVE CleanUnchanged(_, _)
CleanUnchanged(R, i) ==
    IF i > Len(Sources) THEN R
    ELSE LET s == Sources[i]
             agent_viaf_pid == R.avp[s]
             agent_mef_pid == R.amp[s]
         IN  IF agent_viaf_pid # NoPid /\ agent_viaf_pid = agent_mef_pid
             THEN LET u == update_online(R.src, s, agent_viaf_pid, R.fetch)
                  IN  CleanUnchanged(
                        [R EXCEPT !.src = u.src,
                                  !.actions = set_actions(R.actions,
                                      agent_viaf_pid, s, u.action,
                                      R.mrec, "UPTODATE"),
                                  !.avp[s] = NoPid,
                                  !.amp[s] = NoPid], i + 1)
             ELSE CleanUnchanged(R, i + 1)

\* "Update deleted": the sources left in agent_mef_pids are popped from the
\* MEF aggregate of the VIAF record, and their records are remembered
RECURSIVE UpdateDeleted(_, _)
UpdateDeleted(R, i) ==
    IF i > Len(Sources) THEN R
    ELSE LET s == Sources[i]
             pid == R.amp[s]
         IN  IF pid # NoPid
             THEN UpdateDeleted(
                    [R EXCEPT !.deleted = Append(R.deleted,
                                  [name |-> s, pid |-> pid,
                                   found |-> R.src[s][pid] # 0]),
                              !.mef[R.mrec].slots[s] = NoPid,
                              !.actions = set_actions(R.actions, pid, s,
                                  "DISCARD", R.mrec, "DELETE")], i + 1)
             ELSE UpdateDeleted(R, i + 1)

\* old_mef_records.setdefault(pid, []).append(source_name) for every MEF in ms
AddOld(old, ms, s) ==
    [m \in (DOMAIN old) \cup ms |->
        IF m \in ms
        THEN (IF m \in DOMAIN old THEN old[m] ELSE {}) \cup {s}
        ELSE old[m]]

\* "Update changed": the sources left in agent_viaf_pids
RECURSIVE UpdateChanged(_, _)
UpdateChanged(R, i) ==
    IF i > Len(Sources) THEN R
    ELSE LET s == Sources[i]
             pid == R.avp[s]
         IN  IF pid # NoPid
             THEN LET olds == {m \in get_mef(R.mef, pid, s) :
                                  R.mef[m].viaf_pid # R.vpid}
                      old1 == AddOld(R.old, olds, s)
                      u == update_online(R.src, s, pid, R.fetch)
                      c == create_or_update_mef(
                             [mef |-> R.mef, viaf |-> R.viaf,
                              vex |-> R.vex, upd |-> R.upd], s, pid)
                  IN  IF u.rec
                      THEN UpdateChanged(
                             [R EXCEPT !.old = old1, !.src = u.src,
                                       !.mef = c.mef, !.mrec = c.pid,
                                       !.actions = set_actions(R.actions,
                                           pid, s, u.action,
                                           c.pid, c.action)], i + 1)
                      ELSE UpdateChanged(
                             [R EXCEPT !.old = old1, !.src = u.src,
                                       !.actions = set_actions(R.actions,
                                           pid, s, "NOT FOUND", 0, "")],
                             i + 1)
             ELSE UpdateChanged(R, i + 1)

\* a call that leaves the dropped records as the removed pass left them
RecreateDeleted_Skip(R, j) == R

\* "for deleted_record in deleted_records": a record that was not found is
\* None, and calling create_or_update_mef on it raises
RECURSIVE RecreateDeleted(_, _)
RecreateDeleted(R, j) ==
    IF j > Len(R.deleted) \/ R.exc THEN R
    ELSE LET d == R.deleted[j]
             c == create_or_update_mef(
                    [mef |-> R.mef, viaf |-> R.viaf,
                     vex |-> R.vex, upd |-> R.upd], d.name, d.pid)
         IN  IF ~d.found
             THEN [R EXCEPT !.exc = TRUE]
             ELSE RecreateDeleted(
                    [R EXCEPT !.mef = c.mef, !.mrec = c.pid,
                              !.actions = set_actions(R.actions, d.pid,
                                  d.name, "DELETE", c.pid, c.action)],
                    j + 1)

\* "for old_mef_record_pid, sources in old_mef_records.items()": the queued
\* sources are popped from the other aggregates
CleanOld(R) ==
    IF R.exc THEN R
    ELSE [R EXCEPT !.mef = [m \in 1..Len(R.mef) |->
              IF m \in DOMAIN R.old
              THEN [R.mef[m] EXCEPT !.slots =
                       [s \in SourceNames |->
                           IF s \in R.old[m] THEN NoPid
                           ELSE R.mef[m].slots[s]]]
              ELSE R.mef[m]]]

\* the calls of create_mef_and_agents that write a MEF aggregate: the
\* update of the removed pass, create_or_update_mef of the added/changed
\* pass and of the dropped records, the update of the final cleanup
MefWrites(R) ==
    [removed |-> R.deleted # <<>>,
     attached |-> \/ \E s \in SourceNames :
                       /\ R.avp[s] # NoPid
                       /\ update_online(R.src, s, R.avp[s], R.fetch).rec
                  \/ \E j \in 1..Len(R.deleted) : R.deleted[j].found,
     cleaned |-> DOMAIN R.old # {} /\ ~R.exc,
     finished |-> ~R.exc]

\* an except clause that swallows the exception and returns the actions
ExceptHandler_Swallow(R) ==
    [src |-> R.src, mef |-> R.mef, old |-> DOMAIN R.old,
     thrown |-> R.exc, errlog |-> IF R.exc THEN R.vpid ELSE 0,
     raised |-> FALSE, returned |-> TRUE, actions |-> R.actions,
     writes |-> MefWrites(R)]

\* "except Exception as err": the error is logged with the VIAF pid and
\* raised again; otherwise the actions are returned
ExceptHandler(R) ==
    [src |-> R.src, mef |-> R.mef, old |-> DOMAIN R.old,
     thrown |-> R.exc,
     errlog |-> IF R.exc THEN R.vpid ELSE 0,
     raised |-> R.exc,
     returned |-> ~R.exc,
     actions |-> IF R.exc THEN EmptyActions ELSE R.actions,
     writes |-> MefWrites(R)]

\* the commits and index operations on MEF aggregates of one
\* create_mef_and_agents call: every MEF write is given the caller's
\* dbcommit and reindex, and flush_indexes is called under "if reindex"
reconcile_effects(w, dbcommit, reindex) ==
    LET written == w.removed \/ w.attached \/ w.cleaned
    IN  [commit |-> written /\ dbcommit,
         index |-> written /\ reindex,
         flush |-> reindex /\ (w.removed \/ w.finished)]

\* the locals of create_mef_and_agents after "Get all VIAF agents pids" and
\* the get_mef of the VIAF record
reconcile_start(S, V, X, U, M, v, fetch) ==
    LET mef_records == get_mef(M, v, "viaf")
        mrec0 == IF mef_records # {} THEN Min(mef_records) ELSE 0
    IN  [src |-> S, mef |-> M, viaf |-> V, vex |-> X, upd |-> U,
         vpid |-> v, fetch |-> fetch,
         actions |-> EmptyActions,
         avp |-> get_agents_pids(V[v]),
         amp |-> IF mrec0 # 0 THEN mef_get_agents_pids(M, mrec0)
                 ELSE EmptySlots,
         mrec |-> mrec0, deleted |-> <<>>, old |-> EmptyOld,
         exc |-> FALSE]

\* AgentViafRecord.create_mef_and_agents of VIAF record v with the given
\* online fetch outcomes.  Returns the stores and the outcome of the call.
create_mef_and_agents(S, V, X, U, M, v, fetch) ==
    LET R0 == reconcile_start(S, V, X, U, M, v, fetch)
        mrec0 == R0.mrec
        R1 == IF mrec0 # 0 THEN CleanUnchanged(R0, 1) ELSE R0
        R2 == UpdateDeleted(R1, 1)
        R3 == UpdateChanged(R2, 1)
        R4 == RecreateDeleted(R3, 1)
    IN  ExceptHandler(CleanOld(R4))

\* ---------------------------------- the passes in another source order
\* the orders in which the sources can be taken inside a pass
Orders == {o \in [1..Len(Sources) -> 1..Len(Sources)] :
              \A i, j \in 1..Len(Sources) : o[i] = o[j] => i = j}
\* a source -> pid mapping restricted to source s
Only(f, s) == [t \in SourceNames |-> IF t = s THEN f[t] ELSE NoPid]
\* mapping g for source s and mapping f for the other sources
Merge(f, g, s) == [t \in SourceNames |-> IF t = s THEN g[t] ELSE f[t]]

\* the unchanged pass taking the sources in the order o
RECURSIVE UnchangedInOrder(_, _, _)
UnchangedInOrder(R, o, k) ==
    IF k > Len(Sources) THEN R
    ELSE LET s == Sources[o[k]]
             r == CleanUnchanged([R EXCEPT !.avp = Only(R.avp, s),
                                           !.amp = Only(R.amp, s)], 1)
         IN  UnchangedInOrder([r EXCEPT !.avp = Merge(R.avp, r.avp, s),
                                        !.amp = Merge(R.amp, r.amp, s)],
                              o, k + 1)

\* the removed pass taking the sources in the order o
RECURSIVE DeletedInOrder(_, _, _)
DeletedInOrder(R, o, k) ==
    IF k > Len(Sources) THEN R
    ELSE LET s == Sources[o[k]]
             r == UpdateDeleted([R EXCEPT !.amp = Only(R.amp, s)], 1)
         IN  DeletedInOrder([r EXCEPT !.amp = R.amp], o, k + 1)

\* the added/changed pass taking the sources in the order o
RECURSIVE ChangedInOrder(_, _, _)
ChangedInOrder(R, o, k) ==
    IF k > Len(Sources) THEN R
    ELSE LET s == Sources[o[k]]
             r == UpdateChanged([R EXCEPT !.avp = Only(R.avp, s)], 1)
         IN  ChangedInOrder([r EXCEPT !.avp = R.avp], o, k + 1)

\* create_mef_and_agents with the sources taken in the orders o1, o2, o3 in
\* the unchanged, removed and added/changed pass; the dropped records are
\* re-created in the order of the removed pass, and the cleanup pops from
\* each queued aggregate on its own
create_mef_and_agents_in_order(S, V, X, U, M, v, fetch, o1, o2, o3) ==
    LET R0 == reconcile_start(S, V, X, U, M, v, fetch)
        R1 == IF R0.mrec # 0 THEN UnchangedInOrder(R0, o1, 1) ELSE R0
        R2 == DeletedInOrder(R1, o2, 1)
        R3 == ChangedInOrder(R2, o3, 1)
        R4 == RecreateDeleted(R3, 1)
    IN  ExceptHandler(CleanOld(R4))

\* EntityMefRecord.delete_ref: the slot of the record's source is removed
delete_ref(mrec, s) == [mrec EXCEPT !.slots[s] = NoPid]

\* AgentViafRecord.get_agents_records: the listed records found in the store
get_agents_records(S, vrec) ==
    LET RECURSIVE Recs(_)
        Recs(i) ==
            IF i > Len(Sources) THEN <<>>
            ELSE LET s == Sources[i]
                 IN  (IF vrec[s] # NoPid /\ S[s][vrec[s]] # 0
                      THEN <<[name |-> s, pid |-> vrec[s]]>> ELSE <<>>)
                     \o Recs(i + 1)
    IN  Recs(1)

\* "recreate MEF records for agents": create_or_update_mef of recs[j..]
RECURSIVE RecreateAgents(_, _, _)
RecreateAgents(W, recs, j) ==
    IF j > Len(recs) THEN W
    ELSE LET c == create_or_update_mef(W, recs[j].name, recs[j].pid)
         IN  RecreateAgents([W EXCEPT !.mef = c.mef], recs, j + 1)

\* the commits and index operations on MEF aggregates of one
\* AgentViafRecord.delete call: the MEF writes are given dbcommit=True and
\* reindex=True, and AgentMefRecord.flush_indexes() is called twice
delete_effects(S, V, M, v, dbcommit, delindex) ==
    LET written == \/ get_mef(M, v, "viaf") # {}
                   \/ Len(get_agents_records(S, V[v])) > 1
    IN  [commit |-> written, index |-> written, flush |-> TRUE]

\* AgentViafRecord.delete of VIAF record v; V, X, U are the search index of
\* the VIAF records, which keeps v unless delindex.  Returns the MEF
\* aggregates.
viaf_delete(S, V, X, U, M, v, delindex) ==
    LET agents_records == get_agents_records(S, V[v])
        mef_records == get_mef(M, v, "viaf")
        RECURSIVE StripRefs(_, _)
        StripRefs(mrec, j) ==
            IF j > Len(agents_records) THEN mrec
            ELSE StripRefs(delete_ref(mrec, agents_records[j].name), j + 1)
        M1 == [m \in 1..Len(M) |->
                 IF m \in mef_records
                 THEN [StripRefs(M[m], 2) EXCEPT !.viaf_pid = 0]
                 ELSE M[m]]
        W1 == IF delindex
              THEN [mef |-> M1, viaf |-> [V EXCEPT ![v] = NoViaf],
                    vex |-> X \ {v},
                    upd |-> SelectSeq(U, LAMBDA x : x # v)]
              ELSE [mef |-> M1, viaf |-> V, vex |-> X, upd |-> U]
    IN  RecreateAgents(W1, agents_records, 2).mef

\* ---------------------------------------------------- integrity scans
\* the loop "for hit in progress" of get_missing_agent_pids over the hits
\* from position i on; r = [db, viaf] is (pids_db, pids_viaf)
RECURSIVE MissingLoop(_, _, _, _, _)
MissingLoop(V, agent, hits, i, r) ==
    IF i > Len(hits) THEN r
    ELSE LET viaf_pid == hits[i]
             agent_pid == V[viaf_pid][agent]
         IN  IF agent_pid \in r.db
             THEN MissingLoop(V, agent, hits, i + 1,
                              [r EXCEPT !.db = @ \ {agent_pid}])
             ELSE MissingLoop(V, agent, hits, i + 1,
                              [r EXCEPT !.viaf = @ \cup {viaf_pid}])

\* AgentViafRecord.get_missing_agent_pids(agent); hits is the scan of the
\* VIAF index entries that have the field <agent>_pid, in scan order
get_missing_agent_pids(S, V, agent, hits) ==
    MissingLoop(V, agent, hits, 1,
                [db |-> {p \in Pids : S[agent][p] # 0}, viaf |-> {}])

\* the orders in which a scan can deliver the set H of hits
ScanOrders(H) ==
    {h \in [1..Cardinality(H) -> H] : \A i, j \in DOMAIN h : h[i] = h[j] => i = j}

\* the loop "for hit in progress" of get_pids_with_multiple_viaf, VIAF
\* index entries in ascending pid order from v on
RECURSIVE MultipleLoop(_, _, _, _)
MultipleLoop(V, X, v, multiple_pids) ==
    IF v > MaxViaf THEN multiple_pids
    ELSE IF v \notin X THEN MultipleLoop(V, X, v + 1, multiple_pids)
    ELSE MultipleLoop(V, X, v + 1,
           [s \in SourceNames |->
              LET pid == V[v][s]
                  pids == multiple_pids[s]
              IN  IF pid = NoPid THEN pids
                  ELSE IF pid \in DOMAIN pids
                  THEN [pids EXCEPT ![pid] = Append(@, v)]
                  ELSE pids @@ (pid :> <<v>>)])

\* get_pids_with_multiple_viaf that returns the groups of every size
get_pids_with_multiple_viaf_NoClean(V, X) ==
    MultipleLoop(V, X, 1, [s \in SourceNames |-> EmptyActions])

\* AgentViafRecord.get_pids_with_multiple_viaf: per source, pid -> VIAF
\* pids for the groups of more than one VIAF pid
get_pids_with_multiple_viaf(V, X) ==
    LET multiple_pids ==
            MultipleLoop(V, X, 1, [s \in SourceNames |-> EmptyActions])
    IN  [s \in SourceNames |->
           [pid \in {q \in DOMAIN multiple_pids[s] :
                       Len(multiple_pids[s][q]) > 1} |->
              multiple_pids[s][pid]]]

\* ----------------------------------------------------------- behaviour
NoEffects == [commit |-> FALSE, index |-> FALSE, flush |-> FALSE]
NoCall == [op |-> "none", v |-> 0, fetch |-> [s \in SourceNames |-> "off"],
           actions |-> EmptyActions, thrown |-> FALSE, errlog |-> 0,
           raised |-> FALSE, returned |-> TRUE, delindex |-> TRUE,
           action |-> "", code |-> "", pid |-> 0, data |-> EmptyData,
           msg |-> "", agent |-> "",
           missing |-> [db |-> {}, viaf |-> {}],
           multiple |-> [s \in SourceNames |-> EmptyActions],
           dbcommit |-> TRUE, reindex |-> TRUE, effects |-> NoEffects]
NoPre == [mef |-> <<>>, src |-> [s \in SourceNames |-> [p \in Pids |-> 0]]]

\* ------------------------------------ concept MEF: get_latest
\* pids of one pid_type in the concept MEF index
ConceptPids == 1..MaxConcept
\* the pid_type field of an indexed concept MEF record: absent from the
\* index, or its relation_pid (rtype "none": no relation_pid)
ConceptRecords ==
    [present : {TRUE}, rtype : {"redirect_to", "redirect_from"},
     value : ConceptPids]
    \cup {[present |-> TRUE, rtype |-> "none", value |-> 0],
          [present |-> FALSE, rtype |-> "none", value |-> 0]}
\* no get_latest call is running and the index is empty
NoLatest ==
    [idx |-> [p \in ConceptPids |->
                 [present |-> FALSE, rtype |-> "none", value |-> 0]],
     pid_type |-> "", pid |-> 0, depth |-> 0, pc |-> "idle", result |-> 0]

\* the pids get_latest can go on with from the record of pid: the value of
\* a redirect_to relation; without relation_pid and for pid_type idref, the
\* pid of a record found by idref.relation_pid.value = pid
new_pids(idx, pid_type, pid) ==
    IF idx[pid].rtype # "none"
    THEN IF idx[pid].rtype = "redirect_to" THEN {idx[pid].value} ELSE {}
    ELSE IF pid_type = "idref"
         THEN {q \in ConceptPids :
                  idx[q].present /\ idx[q].rtype # "none"
                  /\ idx[q].value = pid}
         ELSE {}

\* the store is not part of the locals of a running call
Local(R) == [R EXCEPT !.src = NoPre.src, !.mef = <<>>]
NoRun == [v \in ViafPids |->
            [pc |-> "idle", i |-> 0,
             R |-> Local(reconcile_start(NoPre.src,
                             [w \in ViafPids |-> NoViaf], {}, <<>>, <<>>,
                             v, [s \in SourceNames |-> "off"]))]]

Init ==
    /\ src = [s \in SourceNames |-> [p \in Pids |-> 0]]
    /\ viaf = [v \in ViafPids |-> NoViaf]
    /\ vex = {}
    /\ stale = {}
    /\ md5 = [v \in ViafPids |-> NoMd5]
    /\ upd = <<>>
    /\ mef = <<>>
    /\ last = NoCall
    /\ pre = NoPre
    /\ nops = 0
    /\ run = NoRun
    /\ cm = NoLatest

ViafData == {d \in [SourceNames -> 0..MaxPid] :
               \A s \in SourceNames : d[s] \in {NoPid} \cup PidsOf(s)}
\* fetch outcomes of one call: only the sources the VIAF record lists count
Fetches(vrec) ==
    {f \in [SourceNames -> {"off", "ok", "fail"}] :
        \A s \in SourceNames : vrec[s] = NoPid => f[s] = "off"}
NoFetch == [s \in SourceNames |-> "off"]

\* bulk load of a source record (fixtures load_csv): no MEF is touched
LoadSource(s, p) ==
    /\ nops < MaxOps
    /\ src[s][p] = 0
    /\ src' = [src EXCEPT ![s][p] = 1]
    /\ last' = [NoCall EXCEPT !.op = "load"]
    /\ pre' = [mef |-> mef, src |-> src]
    /\ nops' = nops + 1
    /\ UNCHANGED <<run, cm>>
    /\ UNCHANGED <<viaf, vex, stale, md5, upd, mef>>

\* deletion of a source record (fixtures delete): the record leaves the store
DeleteSource(s, p) ==
    /\ nops < MaxOps
    /\ src[s][p] # 0
    /\ src' = [src EXCEPT ![s][p] = 0]
    /\ last' = [NoCall EXCEPT !.op = "delete_source"]
    /\ pre' = [mef |-> mef, src |-> src]
    /\ nops' = nops + 1
    /\ UNCHANGED <<run, cm>>
    /\ UNCHANGED <<viaf, vex, stale, md5, upd, mef>>

\* a create MEF task that does not look for the record in the store
task_create_mef_NoCheck(W, S, s, p) ==
    LET c == create_or_update_mef(W, s, p)
    IN  [mef |-> c.mef, msg |-> "Create MEF", action |-> c.action]

\* the create MEF task for the record p of source s: "Not found" when the
\* store has no such record, otherwise create_or_update_mef and its action
task_create_mef(W, S, s, p) ==
    IF S[s][p] = 0
    THEN [mef |-> W.mef, msg |-> "Not found", action |-> ""]
    ELSE LET c == create_or_update_mef(W, s, p)
         IN  [mef |-> c.mef, msg |-> "Create MEF", action |-> c.action]

\* the create MEF task called for one source pid
CreateMef(s, p) ==
    /\ nops < MaxOps
    /\ LET c == task_create_mef(
                  [mef |-> mef, viaf |-> viaf, vex |-> vix, upd |-> upd],
                  src, s, p)
       IN  /\ Len(c.mef) <= MaxMef
           /\ mef' = c.mef
           /\ last' = [NoCall EXCEPT !.op = "create_mef", !.agent = s,
                                     !.pid = p, !.msg = c.msg,
                                     !.action = c.action]
    /\ pre' = [mef |-> mef, src |-> src]
    /\ nops' = nops + 1
    /\ UNCHANGED <<run, cm>>
    /\ UNCHANGED <<src, viaf, vex, stale, md5, upd>>

\* the upstream response that carries the cluster data for VIAF pid v
RECURSIVE TextsOf(_, _)
TextsOf(data, i) ==
    IF i > Len(Sources) THEN <<>>
    ELSE (IF data[Sources[i]] # NoPid
          THEN <<(<<Codes[i], data[Sources[i]]>>)>> ELSE <<>>)
         \o TextsOf(data, i + 1)
ResponseOf(v, data) == [ok |-> TRUE, viafID |-> v, source |-> TextsOf(data, 1)]
\* well-formed upstream responses for v, and a failed request
ViafResponses(v) ==
    {ResponseOf(v, data) : data \in ViafData}
    \cup {[ok |-> FALSE, viafID |-> 0, source |-> <<>>]}

\* AgentViafRecord.update_online: the stored VIAF record is compared with
\* the fetched cluster and replaced if the md5 differs; no reconciliation
\* follows
ViafUpdateOnline(v, resp) ==
    /\ v \in vex
    /\ LET r == viaf_update_online(viaf, md5, v, resp)
       IN  /\ viaf' = r.viaf
           /\ md5' = r.md5
           /\ upd' = IF r.action = "UPDATE" THEN Touch(upd, v) ELSE upd
           /\ last' = [NoCall EXCEPT !.op = "update_online", !.v = v,
                                     !.action = r.action,
                                     !.data = r.data,
                                     !.raised = r.raised,
                                     !.returned = ~r.raised]
    /\ pre' = [mef |-> mef, src |-> src]
    /\ nops' = nops + 1
    /\ UNCHANGED <<run, cm>>
    /\ UNCHANGED <<src, vex, stale, mef>>

\* the effect of one create_mef_and_agents call on the state
Reconciled(r, opname, v, fetch, dbcommit, reindex) ==
    /\ Len(r.mef) <= MaxMef
    /\ src' = r.src
    /\ mef' = r.mef
    /\ last' = [op |-> opname, v |-> v, fetch |-> fetch,
                actions |-> r.actions, thrown |-> r.thrown,
                errlog |-> r.errlog, raised |-> r.raised,
                returned |-> r.returned, delindex |-> TRUE, action |-> "",
                code |-> "", pid |-> 0, data |-> EmptyData, msg |-> "",
                agent |-> "", missing |-> [db |-> {}, viaf |-> {}],
                multiple |-> [s \in SourceNames |-> EmptyActions],
                dbcommit |-> dbcommit, reindex |-> reindex,
                effects |-> reconcile_effects(r.writes, dbcommit, reindex)]
    /\ pre' = [mef |-> mef, src |-> src]
    /\ nops' = nops + 1

\* create_or_update that writes the VIAF record and returns it without
\* calling create_mef_and_agents
ViafCreateOrUpdate_NoReconcile(v, data, dbcommit, reindex) ==
    /\ nops < MaxOps
    /\ viaf' = [viaf EXCEPT ![v] = data]
    /\ md5' = [md5 EXCEPT ![v] = Md5(data)]
    /\ vex' = vex \cup {v}
    /\ stale' = stale \ {v}
    /\ upd' = IF v \in vex /\ viaf[v] = data THEN upd ELSE Touch(upd, v)
    /\ last' = [NoCall EXCEPT !.op = "create_or_update", !.v = v]
    /\ pre' = [mef |-> mef, src |-> src]
    /\ nops' = nops + 1
    /\ UNCHANGED <<src, mef, run, cm>>

\* AgentViafRecord.create_or_update: the record is written, then reconciled
\* with no source type online
ViafCreateOrUpdate(v, data, dbcommit, reindex) ==
    /\ nops < MaxOps
    /\ LET V1 == [viaf EXCEPT ![v] = data]
           X1 == vex \cup {v}
           U1 == IF v \in vex /\ viaf[v] = data THEN upd ELSE Touch(upd, v)
       IN  /\ viaf' = V1
           /\ md5' = [md5 EXCEPT ![v] = Md5(data)]
           /\ vex' = X1
           /\ stale' = stale \ {v}
           /\ upd' = U1
           /\ Reconciled(create_mef_and_agents(src, V1, X1 \cup stale, U1,
                                               mef, v, NoFetch),
                         "create_or_update", v, NoFetch,
                         dbcommit, reindex)
    /\ UNCHANGED <<run, cm>>

\* create_mef_and_agents called on a stored VIAF record with an online set
Reconcile(v, fetch, dbcommit, reindex) ==
    /\ nops < MaxOps
    /\ v \in vex
    /\ Reconciled(create_mef_and_agents(src, viaf, vix, upd, mef, v, fetch),
                  "reconcile", v, fetch, dbcommit, reindex)
    /\ UNCHANGED <<viaf, vex, stale, md5, upd, run, cm>>

\* AgentViafRecord.delete; without delindex the search index keeps the
\* record that left the store
ViafDelete(v, dbcommit, delindex) ==
    /\ nops < MaxOps
    /\ v \in vex
    /\ LET M1 == viaf_delete(src, viaf, vix, upd, mef, v, delindex)
       IN  /\ Len(M1) <= MaxMef
           /\ mef' = M1
    /\ vex' = vex \ {v}
    /\ md5' = [md5 EXCEPT ![v] = NoMd5]
    /\ IF delindex
       THEN /\ viaf' = [viaf EXCEPT ![v] = NoViaf]
            /\ upd' = SelectSeq(upd, LAMBDA x : x # v)
            /\ stale' = stale
       ELSE /\ stale' = stale \cup {v}
            /\ UNCHANGED <<viaf, upd>>
    /\ last' = [NoCall EXCEPT !.op = "delete", !.v = v,
                              !.dbcommit = dbcommit,
                              !.reindex = delindex,
                              !.delindex = delindex,
                              !.effects = delete_effects(src, viaf, mef, v,
                                              dbcommit, delindex)]
    /\ pre' = [mef |-> mef, src |-> src]
    /\ nops' = nops + 1
    /\ UNCHANGED <<run, cm>>
    /\ UNCHANGED src

Next ==
    \/ \E s \in SourceNames : \E p \in PidsOf(s) : LoadSource(s, p)
    \/ \E s \in SourceNames : \E p \in PidsOf(s) : DeleteSource(s, p)
    \/ \E s \in SourceNames : \E p \in PidsOf(s) : CreateMef(s, p)
    \/ \E v \in ViafPids : \E resp \in ViafResponses(v) :
          nops < MaxOps /\ ViafUpdateOnline(v, resp)
    \/ \E v \in ViafPids, data \in ViafData :
          ViafCreateOrUpdate(v, data, TRUE, TRUE)
    \/ \E v \in ViafPids : \E fetch \in Fetches(viaf[v]) :
          Reconcile(v, fetch, TRUE, TRUE)
    \/ \E v \in ViafPids, delindex \in BOOLEAN : ViafDelete(v, TRUE, delindex)

Spec == Init /\ [][Next]_vars

\* ------------------------------ behaviour: the flags of the caller
\* the operations of Spec, with create_mef_and_agents, create_or_update
\* and delete called with every value of dbcommit and reindex / delindex
NextFlags ==
    \/ \E s \in SourceNames : \E p \in PidsOf(s) :
          nops < MaxFlagOps /\ LoadSource(s, p)
    \/ \E v \in ViafPids, data \in ViafData, dbcommit, reindex \in BOOLEAN :
          nops < MaxFlagOps /\ ViafCreateOrUpdate(v, data, dbcommit, reindex)
    \/ \E v \in ViafPids, dbcommit, reindex \in BOOLEAN :
          \E fetch \in Fetches(viaf[v]) :
              nops < MaxFlagOps /\ Reconcile(v, fetch, dbcommit, reindex)
    \/ \E v \in ViafPids, dbcommit, delindex \in BOOLEAN :
          nops < MaxFlagOps /\ ViafDelete(v, dbcommit, delindex)

SpecFlags == Init /\ [][NextFlags]_vars

\* ------------------------------------------- behaviour: the online fetch
\* one stored VIAF record with any cluster and any md5 field
InitOnline ==
    /\ src = [s \in SourceNames |-> [p \in Pids |-> 0]]
    /\ \E d \in ViafData : viaf = [v \in ViafPids |-> IF v = 1 THEN d ELSE NoViaf]
    /\ vex = {1}
    /\ stale = {}
    /\ \E h \in {NoMd5} \cup {Md5(d) : d \in ViafData} :
          md5 = [v \in ViafPids |-> IF v = 1 THEN h ELSE NoMd5]
    /\ upd = <<1>>
    /\ mef = <<>>
    /\ last = NoCall
    /\ pre = NoPre
    /\ nops = 0
    /\ run = NoRun
    /\ cm = NoLatest

\* the queries of get_online_record: VIAF pids, and pids of a source code
Queries ==
    {<<"VIAF", v>> : v \in ViafPids}
    \cup {<<c, p>> : c \in UpstreamCodes, p \in Pids}

\* AgentViafRecord.get_online_record on its own: nothing is stored
GetOnlineRecord(q, resp) ==
    /\ nops < MaxCalls
    /\ LET r == get_online_record(q[1], q[2], resp)
       IN  last' = [NoCall EXCEPT !.op = "get_online_record",
                                  !.code = q[1], !.pid = q[2],
                                  !.data = r.data, !.msg = r.msg,
                                  !.raised = r.raised,
                                  !.returned = ~r.raised]
    /\ pre' = [mef |-> mef, src |-> src]
    /\ nops' = nops + 1
    /\ UNCHANGED <<run, cm>>
    /\ UNCHANGED <<src, viaf, vex, stale, md5, upd, mef>>

NextOnline ==
    \/ \E q \in Queries, resp \in Responses : GetOnlineRecord(q, resp)
    \/ \E v \in ViafPids, resp \in Responses :
          nops < MaxCalls /\ ViafUpdateOnline(v, resp)

SpecOnline == InitOnline /\ [][NextOnline]_vars

\* ------------------------------------------ behaviour: integrity scans
\* any content of the source store and of the VIAF records
InitScan ==
    /\ src \in [SourceNames -> [Pids -> {0, 1}]]
    /\ \A s \in SourceNames : \A p \in Pids \ PidsOf(s) : src[s][p] = 0
    /\ vex \in SUBSET ViafPids
    /\ viaf \in [ViafPids -> ViafData]
    /\ \A v \in ViafPids \ vex : viaf[v] = NoViaf
    /\ stale = {}
    /\ md5 = [v \in ViafPids |-> IF v \in vex THEN Md5(viaf[v]) ELSE NoMd5]
    /\ upd \in ScanOrders(vex)
    /\ mef = <<>>
    /\ last = NoCall
    /\ pre = NoPre
    /\ nops = 0
    /\ run = NoRun
    /\ cm = NoLatest

\* a scanner that deletes the VIAF records it reports
ScanMissing_Repair(agent, hits) ==
    /\ nops < MaxCalls
    /\ LET r == get_missing_agent_pids(src, viaf, agent, hits)
       IN  /\ last' = [NoCall EXCEPT !.op = "missing", !.agent = agent,
                                     !.missing = r]
           /\ vex' = vex \ r.viaf
    /\ pre' = [mef |-> mef, src |-> src]
    /\ nops' = nops + 1
    /\ UNCHANGED <<run, cm>>
    /\ UNCHANGED <<src, viaf, stale, md5, upd, mef>>

\* AgentViafRecord.get_missing_agent_pids(agent)
ScanMissing(agent, hits) ==
    /\ nops < MaxCalls
    /\ last' = [NoCall EXCEPT !.op = "missing", !.agent = agent,
                              !.missing = get_missing_agent_pids(
                                              src, viaf, agent, hits)]
    /\ pre' = [mef |-> mef, src |-> src]
    /\ nops' = nops + 1
    /\ UNCHANGED <<run, cm>>
    /\ UNCHANGED <<src, viaf, vex, stale, md5, upd, mef>>

\* AgentViafRecord.get_pids_with_multiple_viaf()
ScanMultiple ==
    /\ nops < MaxCalls
    /\ last' = [NoCall EXCEPT !.op = "multiple",
                              !.multiple = get_pids_with_multiple_viaf(
                                               viaf, vix)]
    /\ pre' = [mef |-> mef, src |-> src]
    /\ nops' = nops + 1
    /\ UNCHANGED <<run, cm>>
    /\ UNCHANGED <<src, viaf, vex, stale, md5, upd, mef>>

NextScan ==
    \/ \E agent \in SourceNames :
          \E hits \in ScanOrders({v \in vix : viaf[v][agent] # NoPid}) :
              ScanMissing(agent, hits)
    \/ ScanMultiple

SpecScan == InitScan /\ [][NextScan]_vars


\* ------------------- behaviour: two concurrent create_mef_and_agents
\* Both VIAF records are in the store (bulk load) and list at least one
\* stored source record in common; no MEF aggregate exists yet.
InitRace ==
    /\ src \in [SourceNames -> [Pids -> {0, 1}]]
    /\ \A s \in SourceNames : \A p \in Pids \ PidsOf(s) : src[s][p] = 0
    /\ viaf \in [ViafPids -> ViafData]
    /\ \E s \in SourceNames : \E p \in PidsOf(s) :
          /\ src[s][p] = 1
          /\ \A v \in ViafPids : viaf[v][s] = p
    /\ \A v \in ViafPids : \A s \in SourceNames :
          viaf[v][s] # NoPid => src[s][viaf[v][s]] = 1
    /\ vex = ViafPids
    /\ stale = {}
    /\ md5 = [v \in ViafPids |-> Md5(viaf[v])]
    /\ upd \in ScanOrders(vex)
    /\ mef = <<>>
    /\ last = NoCall
    /\ pre = NoPre
    /\ nops = 0
    /\ run = NoRun
    /\ cm = NoLatest

Racing == \A v \in ViafPids : run[v].pc # "rerun"
Resume(R) == [R EXCEPT !.src = src, !.mef = mef]
RaceFrame == UNCHANGED <<viaf, vex, stale, md5, upd, last, pre, nops, cm>>

\* get_mef of the VIAF record, the unchanged pass and the removed pass
RaceBegin(v) ==
    /\ Racing
    /\ run[v].pc = "idle"
    /\ LET R0 == reconcile_start(src, viaf, vix, upd, mef, v, NoFetch)
           R1 == IF R0.mrec # 0 THEN CleanUnchanged(R0, 1) ELSE R0
           R2 == UpdateDeleted(R1, 1)
       IN  /\ src' = R2.src
           /\ mef' = R2.mef
           /\ run' = [run EXCEPT ![v] = [pc |-> "changed", i |-> 1,
                                         R |-> Local(R2)]]
    /\ RaceFrame

\* one iteration of "Update changed": the old aggregates of one source are
\* looked up and its record is attached
RaceChanged(v) ==
    /\ Racing
    /\ run[v].pc = "changed"
    /\ LET R == Resume(run[v].R)
           pending == {k \in run[v].i..Len(Sources) :
                          R.avp[Sources[k]] # NoPid}
       IN  IF pending = {}
           THEN /\ run' = [run EXCEPT ![v].pc = "rehome", ![v].i = 1]
                /\ UNCHANGED <<src, mef>>
           ELSE LET k == Min(pending)
                    one == [R EXCEPT !.avp =
                               [s \in SourceNames |->
                                   IF s = Sources[k] THEN R.avp[s]
                                   ELSE NoPid]]
                    R3 == [UpdateChanged(one, 1) EXCEPT !.avp = R.avp]
                IN  /\ Len(R3.mef) <= MaxMef
                    /\ src' = R3.src
                    /\ mef' = R3.mef
                    /\ run' = [run EXCEPT ![v].i = k + 1,
                                          ![v].R = Local(R3)]
    /\ RaceFrame

\* one iteration of "for deleted_record in deleted_records"
RaceRehome(v) ==
    /\ Racing
    /\ run[v].pc = "rehome"
    /\ LET R == Resume(run[v].R)
           j == run[v].i
       IN  IF j > Len(R.deleted) \/ R.exc
           THEN /\ run' = [run EXCEPT ![v].pc = "cleanup"]
                /\ UNCHANGED <<src, mef>>
           ELSE LET one == [R EXCEPT !.deleted = <<R.deleted[j]>>]
                    R4 == [RecreateDeleted(one, 1) EXCEPT
                              !.deleted = R.deleted]
                IN  /\ Len(R4.mef) <= MaxMef
                    /\ src' = R4.src
                    /\ mef' = R4.mef
                    /\ run' = [run EXCEPT ![v].i = j + 1,
                                          ![v].R = Local(R4)]
    /\ RaceFrame

\* the cleanup of the old aggregates and the end of the call
RaceCleanup(v) ==
    /\ Racing
    /\ run[v].pc = "cleanup"
    /\ LET r == ExceptHandler(CleanOld(Resume(run[v].R)))
       IN  /\ src' = r.src
           /\ mef' = r.mef
           /\ run' = [run EXCEPT ![v].pc = "done", ![v].i = 0,
                                 ![v].R = NoRun[v].R]
    /\ RaceFrame

\* after both calls have ended, create_mef_and_agents(v) runs once more
\* without interleaving
RaceRerun(v) ==
    /\ \A w \in ViafPids : run[w].pc \in {"done", "rerun"}
    /\ run[v].pc = "done"
    /\ Reconciled(create_mef_and_agents(src, viaf, vix, upd, mef, v,
                                        NoFetch),
                  "rerun", v, NoFetch, TRUE, TRUE)
    /\ run' = [run EXCEPT ![v].pc = "rerun"]
    /\ UNCHANGED <<viaf, vex, stale, md5, upd, cm>>

NextRace ==
    \/ \E v \in ViafPids : RaceBegin(v)
    \/ \E v \in ViafPids : RaceChanged(v)
    \/ \E v \in ViafPids : RaceRehome(v)
    \/ \E v \in ViafPids : RaceCleanup(v)
    \/ \E v \in ViafPids : RaceRerun(v)

SpecRace == InitRace /\ [][NextRace]_vars

\* ------------------------- behaviour: ConceptMefRecord.get_latest
\* any content of the concept MEF index, and a call get_latest(pid_type, pid)
InitLatest ==
    /\ src = [s \in SourceNames |-> [p \in Pids |-> 0]]
    /\ viaf = [v \in ViafPids |-> NoViaf]
    /\ vex = {}
    /\ stale = {}
    /\ md5 = [v \in ViafPids |-> NoMd5]
    /\ upd = <<>>
    /\ mef = <<>>
    /\ last = NoCall
    /\ pre = NoPre
    /\ nops = 0
    /\ run = NoRun
    /\ \E idx \in [ConceptPids -> ConceptRecords] :
       \E pid_type \in {"idref", "rero"} : \E pid \in ConceptPids :
          cm = [idx |-> idx, pid_type |-> pid_type, pid |-> pid,
                depth |-> 1, pc |-> "call", result |-> 0]

\* one call of get_latest returns {} or the record, or calls itself with a
\* new pid; the interpreter raises RecursionError at its recursion limit
GetLatest ==
    /\ cm.pc = "call"
    /\ IF ~cm.idx[cm.pid].present
       THEN cm' = [cm EXCEPT !.pc = "returned", !.result = 0]
       ELSE LET nxt == new_pids(cm.idx, cm.pid_type, cm.pid)
            IN  IF nxt = {}
                THEN cm' = [cm EXCEPT !.pc = "returned", !.result = cm.pid]
                ELSE \E new_pid \in nxt :
                        IF cm.depth >= MaxRecursion
                        THEN cm' = [cm EXCEPT !.pc = "raised"]
                        ELSE cm' = [cm EXCEPT !.pid = new_pid,
                                              !.depth = cm.depth + 1]
    /\ UNCHANGED <<src, viaf, vex, stale, md5, upd, mef, last, pre, nops,
                   run>>

NextLatest == GetLatest

SpecLatest == InitLatest /\ [][NextLatest]_vars

\* ------------------------------------------------------------ properties
ReconcileOps == {"reconcile", "create_or_update"}
\* the last call was create_mef_and_agents and it returned its actions
Returned == last.op \in ReconcileOps /\ last.returned
\* the VIAF record the last create_mef_and_agents call ran on
LastViaf == viaf[last.v]
\* the source record of s was obtained by update_online in the last call
Obtained(s) ==
    /\ LastViaf[s] # NoPid
    /\ IF last.fetch[s] = "off" THEN src[s][LastViaf[s]] # 0
       ELSE last.fetch[s] = "ok"
\* the MEF aggregate of the VIAF record before the last call (0: none)
PreMef ==
    LET ms == get_mef(pre.mef, last.v, "viaf")
    IN  IF ms = {} THEN 0 ELSE Min(ms)
\* a second run of the last call on the current state
SecondRun ==
    create_mef_and_agents(src, viaf, vix, upd, mef, last.v, last.fetch)

\* the log of a run holds only UPTODATE source actions and MEF actions
OnlyUptodate(actions) ==
    \A p \in DOMAIN actions :
        /\ actions[p].action = "UPTODATE"
        /\ \A m \in DOMAIN actions[p].MEF : actions[p].MEF[m] = "UPTODATE"

\* C1 (as claimed): after create_mef_and_agents(V) has returned, a second
\* run with the same online set and no change in between returns a log of
\* only UPTODATE source actions and UPTODATE MEF actions, and changes the
\* persisted content of no source record and of no MEF aggregate.
C1_Idempotence ==
    Returned =>
        /\ SecondRun.returned
        /\ OnlyUptodate(SecondRun.actions)
        /\ SecondRun.src = src
        /\ SecondRun.mef = mef

\* C1, write clause alone: the second run changes the persisted content of
\* no source record and of no MEF aggregate.
C1_SecondRunWritesNothing ==
    Returned => (SecondRun.src = src /\ SecondRun.mef = mef)

\* C2 (as claimed): after create_mef_and_agents(V) returns, the MEF
\* aggregate with viaf_pid = V.pid references exactly the sources of V whose
\* record was obtained, each with the pid V gives; others are not referenced.
C2_Coverage ==
    Returned =>
        LET ms == get_mef(mef, last.v, "viaf")
        IN  \A s \in SourceNames :
              /\ Obtained(s) => ms # {}
              /\ \A m \in ms :
                    mef[m].slots[s] =
                        (IF Obtained(s) THEN LastViaf[s] ELSE NoPid)

\* two VIAF records list no common (source, pid)
DisjointViaf(a, b) ==
    \A s \in SourceNames : viaf[a][s] = NoPid \/ viaf[a][s] # viaf[b][s]

\* C3: while the VIAF records have pairwise disjoint (source, pid) sets, no
\* two distinct MEF aggregates reference the same source record.
C3_NoDuplicateAggregate ==
    (\A a, b \in vex : a # b => DisjointViaf(a, b)) =>
        \A s \in SourceNames : \A p \in Pids :
            Cardinality(get_mef(mef, p, s)) <= 1

\* C3 witness: two reconciled VIAF records with disjoint listings, each
\* with its own aggregate that references a source record.
C3_Witness ==
    /\ vex = {1, 2}
    /\ DisjointViaf(1, 2)
    /\ \E m1, m2 \in 1..Len(mef) :
          /\ m1 # m2
          /\ mef[m1].viaf_pid = 1 /\ mef[m2].viaf_pid = 2
          /\ \E s \in SourceNames : mef[m1].slots[s] # NoPid
                                     /\ mef[m1].slots[s] = viaf[1][s]
          /\ \E s \in SourceNames : mef[m2].slots[s] # NoPid
                                     /\ mef[m2].slots[s] = viaf[2][s]

\* at most one MEF aggregate carries a given viaf_pid
OneMefPerViaf ==
    \A v \in ViafPids : Cardinality(get_mef(mef, v, "viaf")) <= 1

\* source s is referenced by the MEF aggregate of V before the last call
\* with a pid that V does not list for it
Dropped(s) ==
    /\ PreMef # 0
    /\ pre.mef[PreMef].slots[s] # NoPid
    /\ pre.mef[PreMef].slots[s] # LastViaf[s]

\* C4 (as claimed): when the MEF aggregate of V references a source record
\* that V no longer lists, create_mef_and_agents(V) removes the slot from
\* the aggregate, leaves the source record in the store unchanged, and logs
\* for that pid the source action DISCARD with MEF action DELETE under the
\* pid of the aggregate.
C4_RemovedMembership ==
    last.op \in ReconcileOps =>
        \A s \in SourceNames :
            LET p == pre.mef[PreMef].slots[s]
            IN  (Dropped(s) /\ pre.src[s][p] # 0) =>
                    /\ last.returned
                    /\ mef[PreMef].slots[s] # p
                    /\ src[s][p] = pre.src[s][p]
                    /\ p \in DOMAIN last.actions
                    /\ last.actions[p].action = "DISCARD"
                    /\ PreMef \in DOMAIN last.actions[p].MEF
                    /\ last.actions[p].MEF[PreMef] = "DELETE"

\* V lists exactly idref and gnd, both records were obtained, and before the
\* call no MEF aggregate existed for V.pid or for either source record
FreshCluster ==
    /\ last.op \in ReconcileOps
    /\ LastViaf["rero"] = NoPid
    /\ Obtained("idref") /\ Obtained("gnd")
    /\ PreMef = 0
    /\ get_mef(pre.mef, LastViaf["idref"], "idref") = {}
    /\ get_mef(pre.mef, LastViaf["gnd"], "gnd") = {}

\* exactly one MEF aggregate was created by the last call, it holds the
\* idref and gnd references of V, and no other aggregate was changed
OneNewAggregate ==
    /\ last.returned
    /\ Len(mef) = Len(pre.mef) + 1
    /\ SubSeq(mef, 1, Len(pre.mef)) = pre.mef
    /\ mef[Len(mef)].slots = LastViaf

\* the MEF action logged for pid p under the MEF pid m ("" when none)
MefAction(p, m) ==
    IF p \in DOMAIN last.actions /\ m \in DOMAIN last.actions[p].MEF
    THEN last.actions[p].MEF[m] ELSE ""

\* no other VIAF record of the VIAF index lists a source record that V lists
OnlyClaimant ==
    \A w \in vix \ {last.v} : \A s \in SourceNames :
        LastViaf[s] = NoPid \/ viaf[w][s] # LastViaf[s]

C6_CrossClusterCleanup ==
    Returned =>
        \A s \in SourceNames : \A m \in 1..Len(pre.mef) :
            (/\ LastViaf[s] # NoPid
             /\ pre.mef[m].slots[s] = LastViaf[s]
             /\ pre.mef[m].viaf_pid # last.v) =>
                /\ mef[m].slots[s] # LastViaf[s]
                /\ \E n \in get_mef(mef, last.v, "viaf") :
                      mef[n].slots[s] = LastViaf[s]

\* source s of V is handled by the added/changed pass of the last call
InChangedPass(s) ==
    /\ LastViaf[s] # NoPid
    /\ ~(PreMef # 0 /\ pre.mef[PreMef].slots[s] = LastViaf[s])

\* C7 (as claimed, frame clause): when a source record handled by the
\* added/changed pass is absent from the store or cannot be fetched online,
\* no MEF aggregate that referenced that record loses the reference.
C7_FailedFetchLeavesMefUntouched ==
    Returned =>
        \A s \in SourceNames :
            (InChangedPass(s) /\ ~Obtained(s)) =>
                \A m \in 1..Len(pre.mef) :
                    pre.mef[m].slots[s] = LastViaf[s] =>
                        mef[m].slots[s] = LastViaf[s]

\* C8: when a step of create_mef_and_agents(V) raises, the error is logged
\* with V.pid, the exception is raised to the caller, and no action log is
\* returned.
C8_FailureSemantics ==
    (last.op \in ReconcileOps /\ last.thrown) =>
        /\ last.errlog = last.v
        /\ last.raised
        /\ ~last.returned
        /\ last.actions = EmptyActions

\* C8 witness: a create_mef_and_agents call in which a step raised (a
\* dropped source record was absent from the store)
C8_Witness ==
    /\ last.op \in ReconcileOps
    /\ last.thrown
    /\ \E s \in SourceNames :
          Dropped(s) /\ pre.src[s][pre.mef[PreMef].slots[s]] = 0

\* C9 (as claimed, for a source whose pid string no other source of V
\* uses): when the online fetch of exactly one source of V fails,
\* create_mef_and_agents(V) does not raise, logs NOT FOUND for that source
\* pid, and every other obtained source of V is attached to an aggregate.
C9_TransportFaultIsolation ==
    last.op \in ReconcileOps =>
        \A s \in SourceNames :
            (/\ last.fetch[s] = "fail"
             /\ \A t \in SourceNames \ {s} :
                   last.fetch[t] # "fail" /\ LastViaf[t] # LastViaf[s]) =>
                /\ last.returned
                /\ LastViaf[s] \in DOMAIN last.actions
                /\ last.actions[LastViaf[s]].action = "NOT FOUND"
                /\ \A t \in SourceNames \ {s} :
                      Obtained(t) => get_mef(mef, LastViaf[t], t) # {}

\* the constituent source records of MEF aggregate m before the last call
\* that exist in the store
Constituents(m) ==
    {s \in SourceNames : /\ pre.mef[m].slots[s] # NoPid
                         /\ pre.src[s][pre.mef[m].slots[s]] # 0}

\* C10 (as claimed): AgentViafRecord.delete of a VIAF record whose MEF
\* aggregate has N existing constituent source records leaves the aggregate
\* referencing exactly one of them, and each of the other N-1 records is
\* afterwards referenced by exactly one MEF aggregate other than the
\* original.
C10_DeletionCleanup ==
    (last.op = "delete" /\ PreMef # 0 /\ Constituents(PreMef) # {}) =>
        LET kept == {s \in Constituents(PreMef) :
                        mef[PreMef].slots[s] = pre.mef[PreMef].slots[s]}
        IN  /\ Cardinality(kept) = 1
            /\ \A s \in Constituents(PreMef) \ kept :
                  LET refs == get_mef(mef, pre.mef[PreMef].slots[s], s)
                  IN  Cardinality(refs) = 1 /\ PreMef \notin refs

C12_ChecksumGating ==
    [][(last'.op = "update_online" /\ nops' = nops + 1 /\ last'.returned) =>
          LET v == last'.v
              fetched == last'.data
          IN  IF ~fetched.present
              THEN /\ last'.action = "DISCARD"
                   /\ UNCHANGED <<viaf, md5, vex, upd>>
              ELSE IF Md5(fetched.pids) = md5[v]
              THEN /\ last'.action = "UPTODATE"
                   /\ UNCHANGED <<viaf, md5, vex, upd>>
              ELSE /\ last'.action = "UPDATE"
                   /\ viaf' = [viaf EXCEPT ![v] = fetched.pids]
                   /\ md5' = [md5 EXCEPT ![v] = Md5(fetched.pids)]
                   /\ vex' = vex]_vars

\* C12 witness: update_online returned UPTODATE for a fetched cluster
\* with the md5 of the stored record
C12_Witness ==
    /\ last.op = "update_online"
    /\ last.action = "UPTODATE"
    /\ last.data.present
    /\ Md5(last.data.pids) = md5[last.v]

\* C13 (as claimed): get_online_record in normalized format never raises;
\* a non-empty result contains the queried pair, and every other upstream
\* response gives the empty dict with the NO RECORD message.
C13_FetchValidation ==
    last.op = "get_online_record" =>
        /\ ~last.raised
        /\ IF last.data.present
           THEN IF last.code = "VIAF" THEN last.data.pid = last.pid
                ELSE /\ NameOf(last.code) # ""
                     /\ last.data.pids[NameOf(last.code)] = last.pid
           ELSE last.data = EmptyData /\ last.msg = "NO RECORD"

\* C13, without the claim that no upstream response makes it raise: a
\* returning get_online_record gives a non-empty result only if it
\* contains the queried pair, and otherwise the empty dict with NO RECORD.
C13_ReturnedIsValidated ==
    (last.op = "get_online_record" /\ last.returned) =>
        IF last.data.present
        THEN IF last.code = "VIAF" THEN last.data.pid = last.pid
             ELSE /\ NameOf(last.code) # ""
                  /\ last.data.pids[NameOf(last.code)] = last.pid
        ELSE last.data = EmptyData /\ last.msg = "NO RECORD"

\* the VIAF index entries that list pid p for source s
Listing(s, p) == {v \in vix : viaf[v][s] = p}

\* C14 (as claimed): get_missing_agent_pids(agent) returns first exactly the
\* stored source pids that no VIAF record lists, and second exactly the
\* VIAF entries whose listed source pid is absent from the store.
C14_MissingPidScan ==
    last.op = "missing" =>
        LET s == last.agent
        IN  /\ last.missing.db =
                 {p \in Pids : src[s][p] # 0 /\ Listing(s, p) = {}}
            /\ last.missing.viaf =
                 {v \in vix : viaf[v][s] # NoPid /\ src[s][viaf[v][s]] = 0}

\* C14, first result alone: the stored source pids that no VIAF record lists
C14_FirstResult ==
    last.op = "missing" =>
        last.missing.db =
            {p \in Pids : src[last.agent][p] # 0 /\ Listing(last.agent, p) = {}}

\* the set of the elements of a sequence
Range(f) == {f[i] : i \in DOMAIN f}

\* C15: get_pids_with_multiple_viaf reports a source pid if and only if
\* more than one VIAF record lists it, with exactly the pids of the VIAF
\* records that list it, each once.
C15_MultipleViafScan ==
    last.op = "multiple" =>
        \A s \in SourceNames : \A p \in Pids :
            /\ p \in DOMAIN last.multiple[s] <=> Cardinality(Listing(s, p)) > 1
            /\ p \in DOMAIN last.multiple[s] =>
                  /\ Range(last.multiple[s][p]) = Listing(s, p)
                  /\ Len(last.multiple[s][p]) = Cardinality(Listing(s, p))

\* C15 witness: a scan over an index in which one source pid is listed by
\* two VIAF records and another by a single one
C15_Witness ==
    /\ last.op = "multiple"
    /\ Cardinality(Listing("idref", 1)) = 2
    /\ Cardinality(Listing("gnd", 1)) = 1
    /\ last.multiple["idref"] = (1 :> <<1, 2>>)
    /\ DOMAIN last.multiple["gnd"] = {}

\* C16: a step of get_missing_agent_pids or get_pids_with_multiple_viaf
\* changes no source record, no VIAF record and no MEF aggregate.
C16_ScannersReadOnly ==
    [][last'.op \in {"missing", "multiple"} =>
          UNCHANGED <<src, viaf, vex, stale, md5, upd, mef>>]_vars

\* C16 witness: a scan that reported integrity faults of both kinds
C16_Witness ==
    /\ last.op = "missing"
    /\ last.missing.db # {}
    /\ last.missing.viaf # {}
    /\ vex # {}

\* C17 (as claimed): create_mef_and_agents and AgentViafRecord.delete index
\* or flush a MEF aggregate only when the caller passed reindex=True
\* (delindex=True for delete) and commit a MEF write only when the caller
\* passed dbcommit=True.
C17_CallerControlledFlags ==
    last.op \in ReconcileOps \cup {"delete"} =>
        /\ (last.effects.index \/ last.effects.flush) => last.reindex
        /\ last.effects.commit => last.dbcommit

\* C17 for create_mef_and_agents alone
C17_ReconcileFlags ==
    last.op \in ReconcileOps =>
        /\ (last.effects.index \/ last.effects.flush) => last.reindex
        /\ last.effects.commit => last.dbcommit

\* aggregates that referenced a source record before the last call and
\* reference none after it
Emptied ==
    {m \in 1..Len(pre.mef) :
        /\ \E s \in SourceNames : pre.mef[m].slots[s] # NoPid
        /\ m <= Len(mef) => \A s \in SourceNames : mef[m].slots[s] = NoPid}

\* C18 (as claimed): an aggregate whose last source reference was removed by
\* create_mef_and_agents or AgentViafRecord.delete is still in the store and
\* carries the 'deleted' marker.
C18_TombstoneOnEmptying ==
    last.op \in ReconcileOps \cup {"delete"} =>
        \A m \in Emptied : m <= Len(mef) /\ mef[m].deleted

\* C18, the part on retention: an emptied aggregate is still in the store
C18_EmptiedIsRetained ==
    last.op \in ReconcileOps \cup {"delete"} =>
        \A m \in Emptied : m <= Len(mef)

\* both calls have ended and each has run once more
RaceOver == \A v \in ViafPids : run[v].pc = "rerun"
\* the (source, pid) pairs that both VIAF records list
Shared == {sp \in SourceNames \X Pids :
              \A v \in ViafPids : viaf[v][sp[1]] = sp[2]}
\* no further create_mef_and_agents call changes a MEF aggregate
Settled ==
    \A v \in ViafPids :
        create_mef_and_agents(src, viaf, vix, upd, mef, v, NoFetch).mef = mef

\* C19 (as claimed): after two interleaved create_mef_and_agents calls on
\* VIAF records listing the same source record, followed by one more run of
\* each without interleaving, the source record is referenced by at most
\* one MEF aggregate and a further run changes no MEF aggregate.
C19_RaceRepair ==
    RaceOver =>
        /\ \A sp \in Shared : Cardinality(get_mef(mef, sp[2], sp[1])) <= 1
        /\ Settled

\* C19, the part on the references alone
C19_AtMostOneAggregate ==
    RaceOver =>
        \A sp \in Shared : Cardinality(get_mef(mef, sp[2], sp[1])) <= 1

\* the last call was the create MEF task for a stored source record that no
\* MEF aggregate referenced and no VIAF record lists
UnaggregatedCreate ==
    /\ last.op = "create_mef"
    /\ pre.src[last.agent][last.pid] # 0
    /\ get_mef(pre.mef, last.pid, last.agent) = {}
    /\ get_viaf_first(viaf, vix, upd, last.agent, last.pid) = 0

\* C20: the create MEF task for a stored source record without aggregate
\* and without VIAF cluster adds one aggregate with the next MEF pid that
\* references exactly that record and has no viaf_pid, and reports CREATE;
\* for a source pid that is not stored it changes no aggregate and returns
\* "Not found".
C20_CreateForUnaggregatedSource ==
    /\ UnaggregatedCreate =>
          /\ Len(mef) = Len(pre.mef) + 1
          /\ SubSeq(mef, 1, Len(pre.mef)) = pre.mef
          /\ mef[Len(mef)].slots =
                 [EmptySlots EXCEPT ![last.agent] = last.pid]
          /\ mef[Len(mef)].viaf_pid = 0
          /\ last.action = "CREATE"
    /\ (last.op = "create_mef" /\ pre.src[last.agent][last.pid] = 0) =>
          /\ mef = pre.mef
          /\ last.msg = "Not found"

\* C20 witness: the task has created the second aggregate of the store
\* for an unaggregated record
C20_Witness ==
    /\ UnaggregatedCreate
    /\ Len(pre.mef) = 1
    /\ last.action = "CREATE"

\* the task was called for a pid that is not stored while aggregates exist
C20_NotFoundCalled ==
    /\ last.op = "create_mef"
    /\ pre.src[last.agent][last.pid] = 0
    /\ Len(mef) >= 1

\* source s is listed by V and by the MEF aggregate of V before the last
\* call with the same pid
Stable(s) ==
    /\ PreMef # 0
    /\ LastViaf[s] # NoPid
    /\ pre.mef[PreMef].slots[s] = LastViaf[s]

\* the source action the spec gives for an unchanged source: UPTODATE, or
\* CREATE / UPDATE when the online refresh wrote the source record
ClaimedSourceAction(s) ==
    LET p == LastViaf[s]
    IN  IF last.fetch[s] = "ok" /\ pre.src[s][p] = 0 THEN "CREATE"
        ELSE IF last.fetch[s] = "ok" /\ pre.src[s][p] = 1 THEN "UPDATE"
        ELSE "UPTODATE"

\* C21 (as claimed): for every source that V and the MEF aggregate of V list
\* with the same pid, create_mef_and_agents(V) leaves the slot unchanged,
\* logs MEF action UPTODATE under the MEF pid and no other MEF action, and
\* logs the source action UPTODATE, or CREATE / UPDATE when the online
\* refresh created or updated the source record.
C21_UnchangedMembership ==
    Returned =>
        \A s \in SourceNames :
            Stable(s) =>
                LET p == LastViaf[s]
                IN  /\ mef[PreMef].slots[s] = p
                    /\ MefAction(p, PreMef) = "UPTODATE"
                    /\ last.actions[p].action = ClaimedSourceAction(s)
                    /\ (\A t \in SourceNames \ {s} : LastViaf[t] # p) =>
                           DOMAIN last.actions[p].MEF = {PreMef}

\* C21 without the source action, for a pid string that no other source of
\* the call carries: the slot stays, the MEF action is UPTODATE, and the
\* source is in no later pass
C21_SlotKeptAndMefUptodate ==
    Returned =>
        \A s \in SourceNames :
            LET p == LastViaf[s]
            IN  (/\ Stable(s)
                 /\ \A t \in SourceNames \ {s} :
                       LastViaf[t] # p /\ pre.mef[PreMef].slots[t] # p) =>
                    /\ mef[PreMef].slots[s] = p
                    /\ MefAction(p, PreMef) = "UPTODATE"
                    /\ DOMAIN last.actions[p].MEF = {PreMef}

\* the final cleanup of the last call removed source s from aggregate m: m
\* was not an aggregate of V, referenced the pid that V lists for s, and no
\* longer does
CleanedFrom(m, s) ==
    /\ pre.mef[m].viaf_pid # last.v
    /\ LastViaf[s] # NoPid
    /\ pre.mef[m].slots[s] = LastViaf[s]
    /\ mef[m].slots[s] = NoPid

\* C22 (as claimed): every removal of a source from another MEF aggregate in
\* the final cleanup of create_mef_and_agents(V) has an entry in the returned
\* log with source action DELETE and MEF action UPDATE under the pid of that
\* aggregate.
C22_CleanupIsLogged ==
    Returned =>
        \A m \in 1..Len(pre.mef) : \A s \in SourceNames :
            CleanedFrom(m, s) =>
                /\ LastViaf[s] \in DOMAIN last.actions
                /\ last.actions[LastViaf[s]].action = "DELETE"
                /\ MefAction(LastViaf[s], m) = "UPDATE"

\* C22, the weakest reading: the log names the aggregate a source was
\* removed from
C22_CleanupNamesAggregate ==
    Returned =>
        \A m \in 1..Len(pre.mef) : \A s \in SourceNames :
            CleanedFrom(m, s) => MefAction(LastViaf[s], m) # ""

\* the last call run again from the state before it, sources taken in the
\* orders o1, o2, o3
RunInOrder(o1, o2, o3) ==
    create_mef_and_agents_in_order(pre.src, viaf, vix, upd, pre.mef,
                                   last.v, last.fetch, o1, o2, o3)
\* the order of the sources dict
CodeOrder == [i \in 1..Len(Sources) |-> i]

\* the aggregates of a store without their pids: content -> how many
Contents(M) ==
    LET S == {M[m] : m \in 1..Len(M)}
    IN  [c \in S |-> Cardinality({m \in 1..Len(M) : M[m] = c})]

\* C23 (as claimed): the MEF aggregates and the source records after
\* create_mef_and_agents(V) are the same for every order of the sources
\* inside the unchanged, removed and added/changed pass.
C23_OrderIndependence ==
    last.op \in ReconcileOps =>
        \A o1, o2, o3 \in Orders :
            LET r == RunInOrder(o1, o2, o3)
            IN  r.mef = mef /\ r.src = src

\* C23 for calls that return, aggregates compared without their pids, for
\* every order of the removed and of the added/changed pass
C23_OrderIndependentContents ==
    Returned =>
        \A o2, o3 \in Orders :
            LET r == RunInOrder(CodeOrder, o2, o3)
            IN  Contents(r.mef) = Contents(mef) /\ r.src = src

\* C23 for calls that raise, aggregates compared without their pids
C23_RaisedContents ==
    (last.op \in ReconcileOps /\ last.raised) =>
        \A o2, o3 \in Orders :
            LET r == RunInOrder(CodeOrder, o2, o3)
            IN  Contents(r.mef) = Contents(mef) /\ r.src = src

\* the order of the code gives the result of the call
C23_CodeOrderIsTheCall ==
    last.op \in ReconcileOps =>
        LET r == RunInOrder(CodeOrder, CodeOrder, CodeOrder)
        IN  r.mef = mef /\ r.src = src /\ r.actions = last.actions

\* C24: every AgentViafRecord.create_or_update step, whether the VIAF record
\* is created, updated or left as it is, leaves the stores as
\* create_mef_and_agents leaves them when run on the written record with no
\* source type online: no source record is written, and every reference
\* added to a MEF aggregate is to a source record that was in the store.
C24_WriteTriggersReconcile ==
    [][last'.op = "create_or_update" =>
          LET v == last'.v
              r == create_mef_and_agents(src, viaf', vex' \cup stale', upd',
                                         mef, v, NoFetch)
          IN  /\ v \in vex'
              /\ last'.fetch = NoFetch
              /\ mef' = r.mef
              /\ last'.raised = r.raised
              /\ last'.actions = r.actions
              /\ src' = src
              /\ \A m \in 1..Len(mef') : \A s \in SourceNames :
                    (/\ mef'[m].slots[s] # NoPid
                     /\ (m > Len(mef) \/ mef[m].slots[s] # mef'[m].slots[s]))
                    => src[s][mef'[m].slots[s]] # 0]_vars

\* C24 witness: a create_or_update call whose reconciliation attached a
\* stored source record to a new aggregate, and logged NOT FOUND for a
\* listed record that is not in the store
C24_Witness ==
    /\ last.op = "create_or_update"
    /\ last.returned
    /\ Len(mef) = Len(pre.mef) + 1
    /\ \E p \in DOMAIN last.actions : last.actions[p].action = "NOT FOUND"

\* every source record is referenced by at most one aggregate of M
SingleOwner(M) ==
    \A s \in SourceNames : \A p \in PidsOf(s) :
        Cardinality(get_mef(M, p, s)) <= 1

\* the stored source record (s, p) was referenced by an aggregate before the
\* last call, or is listed by the VIAF record the call ran on
Concerned(s, p) ==
    /\ src[s][p] # 0
    /\ \/ get_mef(pre.mef, p, s) # {}
       \/ last.op \in ReconcileOps /\ LastViaf[s] = p

\* C25 (as claimed): when no source record was referenced by two aggregates
\* before a create_mef_and_agents or AgentViafRecord.delete call, every
\* stored source record that the VIAF record lists or that was aggregated is
\* referenced by exactly one MEF aggregate after the call.
C25_SingleOwnership ==
    (/\ last.op \in ReconcileOps \cup {"delete"}
     /\ last.returned
     /\ SingleOwner(pre.mef)) =>
        \A s \in SourceNames : \A p \in PidsOf(s) :
            Concerned(s, p) => Cardinality(get_mef(mef, p, s)) = 1

\* C25, the part "never by two"
C25_NeverTwo ==
    (/\ last.op \in ReconcileOps \cup {"delete"}
     /\ SingleOwner(pre.mef)) => SingleOwner(mef)

\* at most one aggregate of M carries a given viaf_pid
OnePerViaf(M) ==
    \A v \in ViafPids : Cardinality(get_mef(M, v, "viaf")) <= 1

\* C26: a create_mef_and_agents call that starts with at most one MEF
\* aggregate per viaf_pid ends with at most one MEF aggregate per viaf_pid,
\* so the first match of get_mef for V.pid is the only one.
C26_OneAggregatePerViaf ==
    (last.op \in ReconcileOps /\ OnePerViaf(pre.mef)) => OnePerViaf(mef)

\* C26 witness: both VIAF records have their aggregate after a call that
\* created one of them
C26_Witness ==
    /\ last.op \in ReconcileOps
    /\ Len(mef) = Len(pre.mef) + 1
    /\ mef[Len(mef)].viaf_pid = last.v
    /\ \A v \in ViafPids : Cardinality(get_mef(mef, v, "viaf")) = 1

\* the returned log has an entry for pid p that carries the source name s
HasEntry(s, p) ==
    p \in DOMAIN last.actions /\ last.actions[p].source = s

\* the (source, pid) pairs that V lists or that the MEF aggregate of V
\* listed before the last call
Processed ==
    {sp \in SourceNames \X Pids :
        \/ LastViaf[sp[1]] = sp[2]
        \/ PreMef # 0 /\ pre.mef[PreMef].slots[sp[1]] = sp[2]}

\* C27 (as claimed): the log returned by create_mef_and_agents(V) has an
\* entry, with the source name of the pair, for every (source, pid) pair
\* that V lists or that the MEF aggregate of V listed.
C27_CompleteActionLog ==
    Returned => \A sp \in Processed : HasEntry(sp[1], sp[2])

\* C27 when no two processed pairs carry the same pid string
C27_DistinctPidStrings ==
    (Returned /\ \A a, b \in Processed : a[2] = b[2] => a = b) =>
        \A sp \in Processed : HasEntry(sp[1], sp[2])

C29_DanglingReferenceTolerance ==
    last.op \in ReconcileOps =>
        \A s \in SourceNames :
            LET p == pre.mef[PreMef].slots[s]
            IN  (Dropped(s) /\ pre.src[s][p] = 0) =>
                    /\ ~last.raised
                    /\ last.returned
                    /\ mef[PreMef].slots[s] # p

\* C29, the part on the slot: the dangling slot is removed even though the
\* call raises
C29_DanglingSlotRemoved ==
    last.op \in ReconcileOps =>
        \A s \in SourceNames :
            LET p == pre.mef[PreMef].slots[s]
            IN  (Dropped(s) /\ pre.src[s][p] = 0) =>
                    /\ last.raised
                    /\ mef[PreMef].slots[s] # p

\* the record get_latest returned redirects to another indexed record
ReturnedRedirects ==
    /\ cm.result # 0
    /\ cm.idx[cm.result].rtype = "redirect_to"
    /\ cm.idx[cm.result].value # cm.result
    /\ cm.idx[cm.idx[cm.result].value].present

\* C30 (as claimed): for every content of the concept MEF index,
\* get_latest(pid_type, pid) does not run into the recursion limit, and a
\* record it returns has no redirect_to relation to another indexed record.
C30_GetLatestTerminates ==
    /\ cm.pc # "raised"
    /\ cm.pc = "returned" => ~ReturnedRedirects

\* C30, the part on the returned record
C30_ReturnedIsLatest ==
    cm.pc = "returned" => ~ReturnedRedirects

\* the pids reached from pid by redirect_to relations in at most n steps
RECURSIVE RedirectsFrom(_, _)
RedirectsFrom(pid, n) ==
    IF n = 0 \/ cm.idx[pid].rtype # "redirect_to" \/ ~cm.idx[pid].present
    THEN {pid}
    ELSE {pid} \cup RedirectsFrom(cm.idx[pid].value, n - 1)

\* C30 for pid_type rero: the recursion limit is reached only when the
\* redirect_to relations form a cycle
C30_ReroRaisesOnlyOnCycle ==
    (cm.pc = "raised" /\ cm.pid_type = "rero") =>
        \E p \in ConceptPids :
            /\ cm.idx[p].present /\ cm.idx[p].rtype = "redirect_to"
            /\ p \in RedirectsFrom(cm.idx[p].value, MaxConcept)

====
